---- MODULE Spec2Model ----
(***************************************************************************)
(* Telegram image-resize bot: the per-user tracker (user_states), the      *)
(* follow-up command parser and the size-fitting engine, in both engine    *)
(* implementations of the repository (for_both.py and image_resize.py).    *)
(*                                                                         *)
(* Strings are sequences of one-character strings, so that split, upper,   *)
(* replace, the size-range regular expression and float() are computed on  *)
(* the characters the way the Python code computes them.                   *)
(*                                                                         *)
(* The imaging library is an external collaborator: the byte length of an  *)
(* encoding is chosen among representative lengths around the target       *)
(* interval (min-1, min, max, max+1).  Encodings the code repeats on the   *)
(* same image at the same quality (95 or 100) are remembered, so a run     *)
(* never shows one encoding with two lengths.                              *)
(***************************************************************************)
EXTENDS Integers, Sequences, FiniteSets, TLC

\* ------------------------------------------------------------------ text

LowerLetters ==
    <<"a","b","c","d","e","f","g","h","i","j","k","l","m",
      "n","o","p","q","r","s","t","u","v","w","x","y","z">>

UpperLetters ==
    <<"A","B","C","D","E","F","G","H","I","J","K","L","M",
      "N","O","P","Q","R","S","T","U","V","W","X","Y","Z">>

DigitChars == <<"0","1","2","3","4","5","6","7","8","9">>

IsDigit(c) == \E i \in 1..10 : DigitChars[i] = c

DigitVal(c) == (CHOOSE i \in 1..10 : DigitChars[i] = c) - 1

\* str.upper() on one character
UpperChar(c) ==
    IF \E i \in 1..26 : LowerLetters[i] = c
    THEN UpperLetters[CHOOSE i \in 1..26 : LowerLetters[i] = c]
    ELSE c

\* str.upper()
Upper(s) == [i \in 1..Len(s) |-> UpperChar(s[i])]

\* str.lower() on one character
LowerChar(c) ==
    IF \E i \in 1..26 : UpperLetters[i] = c
    THEN LowerLetters[CHOOSE i \in 1..26 : UpperLetters[i] = c]
    ELSE c

\* str.strip().split(): the maximal runs of non-blank characters
RECURSIVE SplitFrom(_, _, _, _)
SplitFrom(s, i, cur, acc) ==
    IF i > Len(s)
    THEN IF cur = <<>> THEN acc ELSE Append(acc, cur)
    ELSE IF s[i] = " "
         THEN SplitFrom(s, i + 1, <<>>, IF cur = <<>> THEN acc ELSE Append(acc, cur))
         ELSE SplitFrom(s, i + 1, Append(cur, s[i]), acc)

Split(s) == SplitFrom(s, 1, <<>>, <<>>)

\* str.replace(<<a, b>>, ''): every occurrence of the two characters, left to right
RECURSIVE RemoveAll(_, _, _, _)
RemoveAll(s, a, b, i) ==
    IF i > Len(s) THEN <<>>
    ELSE IF i < Len(s) /\ s[i] = a /\ s[i + 1] = b
         THEN RemoveAll(s, a, b, i + 2)
         ELSE <<s[i]>> \o RemoveAll(s, a, b, i + 1)

\* <<a, b>> in s
Contains(s, a, b) == \E i \in 1..(Len(s) - 1) : s[i] = a /\ s[i + 1] = b

\* the index after the longest run of digits of s that starts at i
RECURSIVE ScanDigits(_, _)
ScanDigits(s, i) ==
    IF i <= Len(s) /\ IsDigit(s[i]) THEN ScanDigits(s, i + 1) ELSE i

RECURSIVE DigitsToNat(_, _)
DigitsToNat(s, acc) ==
    IF s = <<>> THEN acc ELSE DigitsToNat(Tail(s), 10 * acc + DigitVal(Head(s)))

RECURSIVE Pow10(_)
Pow10(n) == IF n = 0 THEN 1 ELSE 10 * Pow10(n - 1)

\* ------------------------------------------------ the size-range pattern

\* \d+(?:\.\d+)?(?:MB|KB) under re.IGNORECASE, matched at index i of s: the index
\* after the match, or 0 when there is none.  \d+ and the optional fraction are
\* greedy; giving digits back never helps, since the next character is then a
\* digit, and without the fraction the next character is the dot.
MatchSize(s, i) ==
    LET d == ScanDigits(s, i)
        f == IF d > i /\ d <= Len(s) /\ s[d] = "." /\ ScanDigits(s, d + 1) > d + 1
             THEN ScanDigits(s, d + 1)
             ELSE d
        unitAt(j) == /\ j + 1 <= Len(s)
                     /\ UpperChar(s[j]) \in {"M", "K"}
                     /\ UpperChar(s[j + 1]) = "B"
    IN  IF d = i THEN 0
        ELSE IF unitAt(f) THEN f + 2
        ELSE IF unitAt(d) THEN d + 2
        ELSE 0

\* re.match(size_pattern, size_range, re.IGNORECASE): anchored at the start of
\* the token only; the groups, or <<>> for no match
SizePatternMatch(size_range) ==
    LET e1 == MatchSize(size_range, 1)
        e2 == IF e1 # 0 /\ e1 <= Len(size_range) /\ size_range[e1] = "-"
              THEN MatchSize(size_range, e1 + 1)
              ELSE 0
    IN  IF e2 = 0 THEN <<>>
        ELSE << SubSeq(size_range, 1, e1 - 1), SubSeq(size_range, e1 + 1, e2 - 1) >>

\* ---------------------------------------------------- ImageProcessor

\* SUPPORTED_FORMATS.keys()
SUPPORTED_FORMATS == { <<"J","P","G">>, <<"J","P","E","G">>, <<"P","N","G">>, <<"W","E","B","P">> }

\* what float() is handed: size_str.replace('MB', '').replace('KB', '')
StripUnits(size_str) == RemoveAll(RemoveAll(size_str, "M", "B", 1), "K", "B", 1)

\* float(x) accepts x: digits, optionally a dot and digits (the only numerals
\* the size pattern lets through); anything else raises ValueError
IsFloatLiteral(x) ==
    LET d == ScanDigits(x, 1)
    IN  /\ d > 1
        /\ \/ d = Len(x) + 1
           \/ /\ d <= Len(x) /\ x[d] = "."
              /\ ScanDigits(x, d + 1) > d + 1
              /\ ScanDigits(x, d + 1) = Len(x) + 1

\* convert_to_bytes raises ValueError
ConvertRaises(size_str) == ~IsFloatLiteral(StripUnits(size_str))

\* float(x) * mult for a literal x; the inputs with a fraction are whole
\* numbers of bytes, so the float product is that integer
FloatTimes(x, mult) ==
    LET d    == ScanDigits(x, 1)
        ip   == SubSeq(x, 1, d - 1)
        fp   == IF d <= Len(x) THEN SubSeq(x, d + 1, Len(x)) ELSE <<>>
    IN  (DigitsToNat(ip \o fp, 0) * mult) \div Pow10(Len(fp))

\* decimal kilobytes in place of 1024
KiloDecimal == 10 * 100

KB == 1024

\* convert_to_bytes(size_str), when it does not raise
convert_to_bytes(size_str) ==
    LET x == StripUnits(size_str)
    IN  IF Contains(Upper(size_str), "M", "B") THEN FloatTimes(x, KB * KB)
        ELSE IF Contains(Upper(size_str), "K", "B") THEN FloatTimes(x, KB)
        ELSE FloatTimes(x, 1)


\* min_size_bytes <= new_size <= max_size_bytes
InRange(new_size, lo, hi) == lo <= new_size /\ new_size <= hi

\* ------------------------------------------------------- reply texts

MsgBadParts  == "Invalid format. Please use: <size_range> <format>"
MsgBadFormat == "Unsupported format. Please use: JPG, JPEG, PNG, WEBP"
MsgBadRange  == "Invalid size range format. Examples: 2MB-3MB, 500KB-1MB"
MsgMinMaxReused == MsgBadRange
MsgMinMax    == "Minimum size must be less than maximum size."
\* str(ValueError) of float(): "could not convert string to float: '...'"
MsgFloat     == "could not convert string to float"
MsgStatus    == "Processing your image..."
MsgSuccess   == "Conversion successful!"
MsgNoFit     == "Could not process the image within the given constraints."
MsgProcError == "Error processing image"
MsgGeneric   == "An error occurred. Please try again."
MsgPhotoAsk  == "Please specify the target size range and format"
MsgPhotoErr  == "Error processing your photo. Please try again."
MsgInvalid   == "Invalid input. Please send an image or use /help for instructions."
MsgWelcome   == "Welcome to the Image Converter Bot!"

\* ------------------------------------------- validation of the follow-up

\* the validation with the min < max check left out
ValidationSkipsMinMax(text) ==
    LET parts == Split(text)
        none  == [error |-> "", output_format |-> <<>>, matched |-> FALSE,
                  min |-> 0, max |-> 0]
    IN  IF Len(parts) # 2 THEN [none EXCEPT !.error = MsgBadParts]
        ELSE
        LET fmt == Upper(parts[2])
            m   == SizePatternMatch(parts[1])
        IN  IF fmt \notin SUPPORTED_FORMATS
            THEN [none EXCEPT !.error = MsgBadFormat, !.output_format = fmt]
            ELSE IF m = <<>>
            THEN [none EXCEPT !.error = MsgBadRange, !.output_format = fmt]
            ELSE IF ConvertRaises(m[1]) \/ ConvertRaises(m[2])
            THEN [none EXCEPT !.error = MsgFloat, !.output_format = fmt,
                              !.matched = TRUE]
            ELSE [error |-> "", output_format |-> fmt, matched |-> TRUE,
                  min |-> convert_to_bytes(m[1]), max |-> convert_to_bytes(m[2])]

\* handle_conversion_request up to the min < max check: the ValueError message
\* raised ("" for none), and what was parsed on the way
Validation(text) ==
    LET parts == Split(text)
        none  == [error |-> "", output_format |-> <<>>, matched |-> FALSE,
                  min |-> 0, max |-> 0]
    IN  IF Len(parts) # 2 THEN [none EXCEPT !.error = MsgBadParts]
        ELSE
        LET size_range == parts[1]
            fmt        == Upper(parts[2])
            m          == SizePatternMatch(size_range)
        IN  IF fmt \notin SUPPORTED_FORMATS
            THEN [none EXCEPT !.error = MsgBadFormat, !.output_format = fmt]
            ELSE IF m = <<>>
            THEN [none EXCEPT !.error = MsgBadRange, !.output_format = fmt]
            ELSE IF ConvertRaises(m[1]) \/ ConvertRaises(m[2])
            THEN [none EXCEPT !.error = MsgFloat, !.output_format = fmt,
                              !.matched = TRUE]
            ELSE
            LET lo == convert_to_bytes(m[1])
                hi == convert_to_bytes(m[2])
            IN  [error |-> IF lo >= hi THEN MsgMinMax ELSE "",
                 output_format |-> fmt, matched |-> TRUE, min |-> lo, max |-> hi]

\* ---------------------------------------------------------------- inputs

NumUsers == 2

Users == 1..NumUsers

Files == {"fileA", "fileB"}

Engines == {"for_both", "image_resize"}

MB_ == <<"M","B">>
KB_ == <<"K","B">>

RECURSIVE NatToDigits(_)
NatToDigits(n) ==
    IF n < 10 THEN <<DigitChars[n + 1]>>
    ELSE NatToDigits(n \div 10) \o <<DigitChars[(n % 10) + 1]>>

\* the unit as the user typed it: upper case, lower case, or mixed
Typed(unit, style) ==
    CASE style = "upper" -> unit
      [] style = "lower" -> [i \in 1..Len(unit) |-> LowerChar(unit[i])]
      [] style = "mixed" -> <<unit[1], LowerChar(unit[2])>>

\* a follow-up "<n1><u1>-<n2><u2><junk> <fmt>"
Command(n1, u1, n2, u2, style, junk, fmt) ==
    [structured |-> TRUE, n1 |-> n1, u1 |-> u1, n2 |-> n2, u2 |-> u2,
     style |-> style, junk |-> junk, fmt |-> fmt,
     text |-> NatToDigits(n1) \o Typed(u1, style) \o <<"-">> \o
              NatToDigits(n2) \o Typed(u2, style) \o junk \o <<" ">> \o fmt]

\* any other text
RawText(t) ==
    [structured |-> FALSE, n1 |-> 0, u1 |-> <<>>, n2 |-> 0, u2 |-> <<>>,
     style |-> "raw", junk |-> <<>>, fmt |-> <<>>, text |-> t]

JPG  == <<"J","P","G">>
JPEG == <<"J","P","E","G">>
PNG  == <<"P","N","G">>
WEBP == <<"W","E","B","P">>

Commands ==
    { Command(2, MB_, 3, MB_, "upper", <<>>, JPG),
      Command(500, KB_, 1, MB_, "upper", <<>>, PNG),
      Command(2, MB_, 3, MB_, "upper", <<"x","y","z">>, JPG),
      Command(2, MB_, 3, MB_, "lower", <<>>, JPG),
      Command(500, KB_, 1, MB_, "mixed", <<>>, <<"p","n","g">>),
      Command(3, MB_, 2, MB_, "upper", <<>>, WEBP),
      Command(1024, KB_, 1, MB_, "upper", <<>>, JPEG),
      Command(1, MB_, 1024, KB_, "upper", <<>>, JPEG),
      Command(2, MB_, 1, KB_, "upper", <<>>, <<"w","e","b","p">>),
      Command(0, MB_, 0, KB_, "upper", <<>>, JPG),
      Command(1025, KB_, 1, MB_, "upper", <<>>, PNG),
      Command(3, KB_, 2, KB_, "lower", <<>>, JPG),
      Command(2, MB_, 3, MB_, "upper", <<>>, <<"G","I","F">>),
      Command(2, MB_, 3, MB_, "upper", <<"-">>, <<"B","M","P">>) }

RawTexts ==
    { RawText(<<"2","-","3","M","B"," ","J","P","G">>),
      RawText(<<"2","M","B","-","3"," ","J","P","G">>),
      RawText(<<"x","2","M","B","-","3","M","B"," ","J","P","G">>),
      RawText(<<"2","M","B","3","M","B"," ","P","N","G">>),
      RawText(<<"1",".","5","K","B","-","1","K","B"," ","P","N","G">>),
      RawText(<<"0",".","5","M","B","-","5","1","2",".","0","K","B"," ","P","N","G">>),
      RawText(<<"1",".","K","B","-","2","K","B"," ","P","N","G">>),
      RawText(<<"2","-","3","M","B"," ","G","I","F">>),
      RawText(<<"2","M","B","-","3","M","B">>),
      RawText(<<"2","M","B"," ","-"," ","3","M","B"," ","J","P","G">>),
      RawText(<<" ","3","M","B","-","2","M","B"," "," ","J","P","G"," ">>),
      RawText(<<"h","e","l","l","o">>) }

Messages == Commands \cup RawTexts

\* the validation of each message
ValidationOf == [m \in Messages |-> Validation(m.text)]

\* width and height of the photos sent
Dims == { <<150, 150>>, <<101, 300>>, <<100, 120>> }

\* the byte lengths an encoding (or the downloaded file) is drawn from:
\* just below, on, and just above the two ends of the target interval
SizeSet(lo, hi) == { s \in {lo - 1, lo, hi, hi + 1} : s >= 1 }


\* ----------------------------------------------------------------- state

VARIABLES
    engine,          \* which of the two source files is running
    user_states,     \* the tracker: user id -> {file_id, waiting_for}
    pc,              \* where the handler being run stands ("idle": none)
    handler,         \* the handler being run, or the last one run
    user_id,         \* message.from_user.id
    message,         \* the text message handled
    output_format,   \* handle_conversion_request's locals
    min_size_bytes,
    max_size_bytes,
    file_id,
    current_size,    \* len(image_data)
    width,           \* img.size, then the shrink loop's width and height
    height,
    technique,       \* increase_image_size: the technique being tried
    step,            \* the running loop's counter
    cand,            \* the image the technique returned
    enlarged,        \* what increase_image_size returned
    img95,           \* lengths of encodings already made (0: not yet):
    img100,          \*   the opened image at quality 95 and 100,
    cand95,          \*   the technique's image at quality 95 and 100
    cand100,
    cand_w,          \* geometry of the last image the shrink loop encoded
    cand_h,
    tried,           \* the techniques tried, in order
    shrinkAttempts,  \* shrink loop iterations run by this process_image
    new_size,        \* process_image's new_size: the length last measured
    outcome,         \* how process_image (or the download) ended
    result_len,      \* len(processed_image)
    returnedBy,      \* the phase whose return statement produced the bytes
    sent,            \* the replies of this handler, in order
    engineCalls,     \* calls of process_image by this handler
    downloads        \* files downloaded by this handler

trackerVars == <<engine, user_states>>
requestVars == <<handler, user_id, message, output_format, min_size_bytes,
                 max_size_bytes, file_id, sent, engineCalls, downloads>>
imageVars   == <<current_size, width, height>>
growVars    == <<technique, step, cand, enlarged, img95, img100, cand95, cand100,
                 tried>>
shrinkVars  == <<cand_w, cand_h, shrinkAttempts>>
resultVars  == <<outcome, result_len, returnedBy>>

vars == <<trackerVars, pc, requestVars, imageVars, growVars, shrinkVars, new_size,
          resultVars>>

NoMessage == RawText(<<>>)

\* the locals of a handler that has just been entered
EngineReset ==
    /\ current_size' = 0 /\ width' = 0 /\ height' = 0
    /\ technique' = "none" /\ step' = 0 /\ cand' = "none" /\ enlarged' = "none"
    /\ img95' = 0 /\ img100' = 0 /\ cand95' = 0 /\ cand100' = 0
    /\ cand_w' = 0 /\ cand_h' = 0
    /\ tried' = <<>> /\ shrinkAttempts' = 0
    /\ new_size' = 0
    /\ outcome' = "pending" /\ result_len' = 0 /\ returnedBy' = "none"

Init ==
    /\ engine \in Engines
    /\ user_states = <<>>
    /\ pc = "idle"
    /\ handler = "none"
    /\ user_id = 0
    /\ message = NoMessage
    /\ output_format = <<>>
    /\ min_size_bytes = 0 /\ max_size_bytes = 0
    /\ file_id = "none"
    /\ current_size = 0 /\ width = 0 /\ height = 0
    /\ technique = "none" /\ step = 0 /\ cand = "none" /\ enlarged = "none"
    /\ img95 = 0 /\ img100 = 0 /\ cand95 = 0 /\ cand100 = 0
    /\ cand_w = 0 /\ cand_h = 0
    /\ tried = <<>> /\ shrinkAttempts = 0
    /\ new_size = 0
    /\ outcome = "pending" /\ result_len = 0 /\ returnedBy = "none"
    /\ sent = <<>> /\ engineCalls = 0 /\ downloads = 0

\* --------------------------------------------------------------- tracker

\* an entry already there is kept: the first photo stays the stored one
RecordKeepsFirst(states, u, f) ==
    [x \in DOMAIN states \cup {u} |->
        IF x \in DOMAIN states
        THEN states[x]
        ELSE [file_id |-> f, waiting_for |-> "size_format"]]

\* user_states[user_id] = {'file_id': ..., 'waiting_for': 'size_format', ...}
\* (original_size, kept for nothing but the record, is left out)
Record(states, u, f) ==
    [x \in DOMAIN states \cup {u} |->
        IF x = u THEN [file_id |-> f, waiting_for |-> "size_format"] ELSE states[x]]

\* the dispatch test of handle_conversion_request
IsAwaitingSpec(states, u) ==
    u \in DOMAIN states /\ states[u].waiting_for = "size_format"

\* the finally clause left out: the entry stays
FinallyKeepsEntry(states, u) == states

\* finally: if user_id in user_states: del user_states[user_id]
Finally(states, u) == [x \in DOMAIN states \ {u} |-> states[x]]

\* ------------------------------------------------------------- handlers

\* handle_photo: bot.get_file answers or raises
HandlePhoto(u, f) ==
    /\ pc = "idle"
    /\ handler' = "handle_photo" /\ user_id' = u /\ message' = NoMessage
    /\ output_format' = <<>> /\ min_size_bytes' = 0 /\ max_size_bytes' = 0
    /\ file_id' = f /\ engineCalls' = 0 /\ downloads' = 0
    /\ EngineReset
    /\ \E got \in BOOLEAN :
          IF got
          THEN /\ user_states' = Record(user_states, u, f)
               /\ sent' = <<MsgPhotoAsk>>
          ELSE /\ user_states' = user_states
               /\ sent' = <<MsgPhotoErr>>
    /\ UNCHANGED <<engine, pc>>

\* send_welcome: /start and /help, registered before the other text handlers
SendWelcome(u) ==
    /\ pc = "idle"
    /\ handler' = "send_welcome" /\ user_id' = u /\ message' = NoMessage
    /\ output_format' = <<>> /\ min_size_bytes' = 0 /\ max_size_bytes' = 0
    /\ file_id' = "none" /\ engineCalls' = 0 /\ downloads' = 0
    /\ EngineReset
    /\ sent' = <<MsgWelcome>>
    /\ UNCHANGED <<engine, user_states, pc>>

\* handle_invalid: a text of a user the tracker is not waiting for
HandleInvalid(u) ==
    /\ pc = "idle"
    /\ ~IsAwaitingSpec(user_states, u)
    /\ handler' = "handle_invalid" /\ user_id' = u /\ message' = NoMessage
    /\ output_format' = <<>> /\ min_size_bytes' = 0 /\ max_size_bytes' = 0
    /\ file_id' = "none" /\ engineCalls' = 0 /\ downloads' = 0
    /\ EngineReset
    /\ sent' = <<MsgInvalid>>
    /\ UNCHANGED <<engine, user_states, pc>>

\* handle_conversion_request, from its entry to the status message: a
\* ValueError of the validation is answered and the finally clause runs
ConversionBegin(u, m) ==
    /\ pc = "idle"
    /\ IsAwaitingSpec(user_states, u)
    /\ LET v == ValidationOf[m]
       IN  /\ handler' = "handle_conversion_request"
           /\ user_id' = u /\ message' = m
           /\ output_format' = v.output_format
           /\ min_size_bytes' = v.min /\ max_size_bytes' = v.max
           /\ file_id' = "none" /\ engineCalls' = 0 /\ downloads' = 0
           /\ EngineReset
           /\ IF v.error # ""
              THEN /\ sent' = <<v.error>>
                   /\ user_states' = Finally(user_states, u)
                   /\ pc' = "idle"
              ELSE /\ sent' = <<MsgStatus>>
                   /\ user_states' = user_states
                   /\ pc' = "fetch"
    /\ UNCHANGED engine

\* file_id = user_states[user_id]['file_id']; bot.get_file; bot.download_file:
\* the download raises, or yields the bytes of a photo
Fetch ==
    /\ pc = "fetch"
    /\ file_id' = user_states[user_id].file_id
    /\ \E ok \in BOOLEAN :
          IF ok
          THEN /\ downloads' = downloads + 1
               /\ \E sz \in SizeSet(min_size_bytes, max_size_bytes) :
                     current_size' = sz
               /\ UNCHANGED <<width, height>>
               /\ outcome' = outcome
               /\ pc' = "process"
          ELSE /\ downloads' = downloads
               /\ outcome' = "download_error"
               /\ UNCHANGED imageVars
               /\ pc' = "finish"
    /\ UNCHANGED <<trackerVars, handler, user_id, message, output_format,
                   min_size_bytes, max_size_bytes, sent, engineCalls,
                   growVars, shrinkVars, new_size, result_len, returnedBy>>

\* the reply that ends the handler
FinalReply(how, processed_len) ==
    CASE how = "returned" /\ processed_len > 0 -> MsgSuccess
      [] how = "returned" /\ processed_len = 0 -> MsgNoFit
      [] how = "none"                          -> MsgNoFit
      [] how = "raised"                        -> MsgProcError
      [] OTHER                                 -> MsgGeneric

\* the reply after process_image (or after a failed download), then finally
Finish ==
    /\ pc = "finish"
    /\ sent' = Append(sent, FinalReply(outcome, result_len))
    /\ user_states' = Finally(user_states, user_id)
    /\ pc' = "idle"
    /\ UNCHANGED <<engine, handler, user_id, message, output_format,
                   min_size_bytes, max_size_bytes, file_id, engineCalls, downloads,
                   imageVars, growVars, shrinkVars, new_size, resultVars>>


\* ------------------------------------------------- the imaging library

\* the length of an encoding: the one already seen, or any representative
Lengths(known) ==
    IF known # 0 THEN {known} ELSE SizeSet(min_size_bytes, max_size_bytes)

\* for quality in range(95, 101): save; if len >= target: return.  The
\* outcomes of the whole loop on an image whose lengths at 95 and 100 are
\* k95 and k100 (0: unknown): found or not, and the lengths then known.
QualityLadderUp(k95, k100, target) ==
    LET low95 == { a \in Lengths(k95) : a < target }
    IN  { [found |-> TRUE, s95 |-> a, s100 |-> k100] :
              a \in { x \in Lengths(k95) : x >= target } }
        \cup { [found |-> TRUE, s95 |-> a, s100 |-> k100] : a \in low95 }
        \cup { [found |-> b >= target, s95 |-> a, s100 |-> b] :
                  a \in low95, b \in Lengths(k100) }

RECURSIVE Pow(_, _)
Pow(b, n) == IF n = 0 THEN 1 ELSE b * Pow(b, n - 1)

\* the factor left out: the running size is carried over as it is
ShrunkKeepsSize(w) == w

\* int(width * 0.9)
Shrunk(w) == (w * 9) \div 10

\* while width > 100 and height > 100
AboveFloor(w, h) == w > 100 /\ h > 100

\* ------------------------------------------ for_both.py: ImageSizeManager

\* the list with two techniques in each other's place
TechniquesReordered == <<"scaling", "metadata", "padding", "quality", "duplicate">>

\* increase_image_size's list of techniques
Techniques == <<"metadata", "scaling", "padding", "quality", "duplicate">>

max_iterations == 10
max_scale      == 4
max_padding    == 1000
max_multiplier == 4

\* scale_factor <= max_scale at the k-th round, scale_factor = 1.2^k
ScalingContinues(k) == Pow(12, k) <= max_scale * Pow(10, k)

\* the counter a technique's loop starts from
StartStep(t) ==
    CASE t = "metadata"  -> 0
      [] t = "scaling"   -> 1
      [] t = "padding"   -> 100
      [] t = "quality"   -> 0
      [] t = "duplicate" -> 2

TechniqueIndex(t) == CHOOSE i \in 1..Len(Techniques) : Techniques[i] = t

\* for technique_name, technique in techniques: the technique after t is
\* entered, or the loop ends and increase_image_size returns None
NextTechnique(t) ==
    LET i == TechniqueIndex(t)
    IN  IF i < Len(Techniques)
        THEN /\ technique' = Techniques[i + 1]
             /\ pc' = Techniques[i + 1]
             /\ step' = StartStep(Techniques[i + 1])
             /\ tried' = Append(tried, Techniques[i + 1])
             /\ enlarged' = enlarged
        ELSE /\ technique' = technique
             /\ pc' = "grown"
             /\ step' = 0
             /\ tried' = tried
             /\ enlarged' = "none"

\* a technique returned image c: on to _verify_size
TechniqueReturns(c) ==
    /\ cand' = c
    /\ pc' = "verify"
    /\ step' = 0
    /\ UNCHANGED <<technique, tried, enlarged>>

\* return img_io.getvalue()
Return(bytes_len, phase) ==
    /\ outcome' = "returned"
    /\ result_len' = bytes_len
    /\ returnedBy' = phase
    /\ pc' = "finish"

\* process_image, from its entry to the branch on current_size
Process ==
    /\ pc = "process"
    /\ engineCalls' = engineCalls + 1
    /\ \E decoded \in BOOLEAN :
          IF ~decoded \/ output_format \notin SUPPORTED_FORMATS
          THEN /\ outcome' = "raised" /\ pc' = "finish"
               /\ UNCHANGED <<growVars, result_len, returnedBy>>
          ELSE IF current_size < min_size_bytes
          THEN /\ IF engine = "for_both"
                  THEN /\ technique' = Techniques[1]
                       /\ pc' = Techniques[1]
                       /\ step' = StartStep(Techniques[1])
                       /\ tried' = <<Techniques[1]>>
                  ELSE /\ technique' = technique
                       /\ pc' = "enlarge"
                       /\ step' = 1
                       /\ tried' = tried
               /\ UNCHANGED <<cand, enlarged, img95, img100, cand95, cand100,
                              resultVars>>
          ELSE IF current_size > max_size_bytes
          THEN /\ pc' = "start_shrink"
               /\ UNCHANGED <<growVars, resultVars>>
          ELSE IF engine = "for_both"
          THEN /\ outcome' = "none" /\ pc' = "finish"
               /\ UNCHANGED <<growVars, result_len, returnedBy>>
          ELSE /\ pc' = "inrange"
               /\ UNCHANGED <<growVars, resultVars>>
    /\ UNCHANGED <<trackerVars, handler, user_id, message, output_format,
                   min_size_bytes, max_size_bytes, file_id, sent, downloads,
                   imageVars, shrinkVars, new_size>>

engineFrame == <<trackerVars, requestVars, imageVars>>
growthFrame == <<engineFrame, shrinkVars, new_size, resultVars>>

\* _add_metadata: one round of its loop
AddMetadata ==
    /\ pc = "metadata"
    /\ \E len \in SizeSet(min_size_bytes, max_size_bytes) :
          IF len >= min_size_bytes
          THEN TechniqueReturns("img")
          ELSE IF step + 1 < max_iterations
          THEN /\ step' = step + 1
               /\ UNCHANGED <<pc, technique, cand, tried, enlarged>>
          ELSE NextTechnique("metadata") /\ cand' = cand
    /\ UNCHANGED <<growthFrame, img95, img100, cand95, cand100>>

\* _increase_by_scaling: one round of its while loop, all six qualities
IncreaseByScaling ==
    /\ pc = "scaling"
    /\ \E o \in QualityLadderUp(0, 0, min_size_bytes) :
          IF o.found
          THEN /\ TechniqueReturns("scaled")
               /\ cand95' = o.s95 /\ cand100' = o.s100
          ELSE /\ IF ScalingContinues(step + 1)
                  THEN /\ step' = step + 1
                       /\ UNCHANGED <<pc, technique, tried, enlarged>>
                  ELSE NextTechnique("scaling")
               /\ UNCHANGED <<cand, cand95, cand100>>
    /\ UNCHANGED <<growthFrame, img95, img100>>

\* _increase_by_padding: one round of its while loop
IncreaseByPadding ==
    /\ pc = "padding"
    /\ \E len \in SizeSet(min_size_bytes, max_size_bytes) :
          IF len >= min_size_bytes
          THEN /\ TechniqueReturns("padded")
               /\ cand95' = 0 /\ cand100' = len
          ELSE /\ IF step * 2 <= max_padding
                  THEN /\ step' = step * 2
                       /\ UNCHANGED <<pc, technique, tried, enlarged>>
                  ELSE NextTechnique("padding")
               /\ UNCHANGED <<cand, cand95, cand100>>
    /\ UNCHANGED <<growthFrame, img95, img100>>

\* _increase_by_quality: its loop over the six qualities, on the opened image
IncreaseByQuality ==
    /\ pc = "quality"
    /\ \E o \in QualityLadderUp(img95, img100, min_size_bytes) :
          /\ img95' = o.s95 /\ img100' = o.s100
          /\ IF o.found
             THEN TechniqueReturns("img")
             ELSE NextTechnique("quality") /\ cand' = cand
    /\ UNCHANGED <<growthFrame, cand95, cand100>>

\* _increase_by_duplicate: one round of its while loop
IncreaseByDuplicate ==
    /\ pc = "duplicate"
    /\ \E len \in SizeSet(min_size_bytes, max_size_bytes) :
          IF len >= min_size_bytes
          THEN /\ TechniqueReturns("tiled")
               /\ cand95' = 0 /\ cand100' = len
          ELSE /\ IF step + 1 <= max_multiplier
                  THEN /\ step' = step + 1
                       /\ UNCHANGED <<pc, technique, tried, enlarged>>
                  ELSE NextTechnique("duplicate")
               /\ UNCHANGED <<cand, cand95, cand100>>
    /\ UNCHANGED <<growthFrame, img95, img100>>

\* if result and _verify_size(result, ...): return result
VerifySize ==
    /\ pc = "verify"
    /\ \E len \in Lengths(IF cand = "img" THEN img100 ELSE cand100) :
          /\ IF cand = "img"
             THEN img100' = len /\ cand100' = cand100
             ELSE cand100' = len /\ img100' = img100
          /\ IF len >= min_size_bytes
             THEN /\ enlarged' = cand
                  /\ pc' = "grown"
                  /\ UNCHANGED <<technique, step, tried>>
             ELSE NextTechnique(technique)
    /\ UNCHANGED <<growthFrame, cand, img95, cand95>>

\* if current_size > max_size_bytes or current_size < min_size_bytes
NeedsShrink == current_size > max_size_bytes \/ current_size < min_size_bytes

\* growth returned nothing: on to the shrink branch, or past it to the end
AfterGrowthFailed ==
    IF NeedsShrink
    THEN pc' = "start_shrink" /\ UNCHANGED resultVars
    ELSE IF engine = "for_both"
    THEN outcome' = "none" /\ pc' = "finish" /\ UNCHANGED <<result_len, returnedBy>>
    ELSE pc' = "inrange" /\ UNCHANGED resultVars

\* the test of new_size against the interval left out: the shrink branch is
\* entered whatever growth produced
AfterGrowthShrinksAnyway ==
    /\ pc = "grown"
    /\ IF enlarged # "none"
       THEN \E len \in Lengths(IF enlarged = "img" THEN img95 ELSE cand95) :
               new_size' = len /\ AfterGrowthFailed
       ELSE AfterGrowthFailed /\ new_size' = new_size
    /\ img95' = 0 /\ img100' = 0 /\ cand95' = 0 /\ cand100' = 0
    /\ UNCHANGED <<engineFrame, technique, step, cand, enlarged, tried,
                   shrinkVars>>

\* process_image after increase_image_size: the quality-95 encoding of the
\* enlarged image is returned if it lies in the interval
AfterGrowth ==
    /\ pc = "grown"
    /\ IF enlarged # "none"
       THEN \E len \in Lengths(IF enlarged = "img" THEN img95 ELSE cand95) :
               /\ new_size' = len
               /\ IF InRange(len, min_size_bytes, max_size_bytes)
                  THEN Return(len, "growth")
                  ELSE AfterGrowthFailed
       ELSE AfterGrowthFailed /\ new_size' = new_size
    /\ img95' = 0 /\ img100' = 0 /\ cand95' = 0 /\ cand100' = 0
    /\ UNCHANGED <<engineFrame, technique, step, cand, enlarged, tried,
                   shrinkVars>>


\* ------------------------------------------------ for_both.py: shrinking

\* width, height = img.size: the geometry of the photo, first read here
StartShrink ==
    /\ pc = "start_shrink"
    /\ \E d \in Dims : width' = d[1] /\ height' = d[2]
    /\ pc' = "shrink"
    /\ UNCHANGED <<trackerVars, requestVars, current_size, growVars, shrinkVars,
                   new_size, resultVars>>

\* one round of the while loop of the shrink branch: the image is resized to
\* 0.9 of the running size and encoded down the quality ladder (95, 90, .. 5);
\* len is the length at the quality the ladder stops at
ShrinkForBoth ==
    /\ pc = "shrink" /\ engine = "for_both"
    /\ IF AboveFloor(width, height)
       THEN /\ cand_w' = Shrunk(width) /\ cand_h' = Shrunk(height)
            /\ shrinkAttempts' = shrinkAttempts + 1
            /\ \E len \in SizeSet(min_size_bytes, max_size_bytes) :
                  /\ new_size' = len
                  /\ IF InRange(len, min_size_bytes, max_size_bytes)
                     THEN Return(len, "shrink") /\ UNCHANGED <<width, height>>
                     ELSE /\ width' = Shrunk(width) /\ height' = Shrunk(height)
                          /\ UNCHANGED <<pc, resultVars>>
       ELSE /\ outcome' = "none" /\ pc' = "finish"
            /\ UNCHANGED <<width, height, shrinkVars, new_size, result_len,
                           returnedBy>>
    /\ UNCHANGED <<trackerVars, requestVars, current_size, growVars>>

\* ------------------------------------------- image_resize.py: the engine

MAX_SCALING_FACTOR == 2

\* scale_factor <= MAX_SCALING_FACTOR at the k-th round, scale_factor = 1.1^k
EnlargeContinues(k) == Pow(11, k) <= MAX_SCALING_FACTOR * Pow(10, k)

\* one round of the enlarging loop
Enlarge ==
    /\ pc = "enlarge"
    /\ \E len \in SizeSet(min_size_bytes, max_size_bytes) :
          /\ new_size' = len
          /\ IF InRange(len, min_size_bytes, max_size_bytes)
             THEN Return(len, "growth") /\ step' = 0
             ELSE IF len > max_size_bytes \/ ~EnlargeContinues(step + 1)
             THEN AfterGrowthFailed /\ step' = 0
             ELSE step' = step + 1 /\ UNCHANGED <<pc, resultVars>>
    /\ UNCHANGED <<engineFrame, technique, cand, enlarged, img95, img100,
                   cand95, cand100, tried, shrinkVars>>

\* try_save_image(img, format, max_size_bytes, width, height) and the test of
\* its result: len is the first length of the ladder that is <= target_size,
\* or the length at the last quality when none is
ShrinkImageResize ==
    /\ pc = "shrink" /\ engine = "image_resize"
    /\ IF AboveFloor(width, height)
       THEN /\ cand_w' = width /\ cand_h' = height
            /\ shrinkAttempts' = shrinkAttempts + 1
            /\ \E len \in SizeSet(min_size_bytes, max_size_bytes) :
                  IF len <= max_size_bytes
                     /\ InRange(len, min_size_bytes, max_size_bytes)
                  THEN Return(len, "shrink") /\ UNCHANGED <<width, height>>
                  ELSE /\ width' = Shrunk(width) /\ height' = Shrunk(height)
                       /\ UNCHANGED <<pc, resultVars>>
       ELSE /\ IF InRange(current_size, min_size_bytes, max_size_bytes)
               THEN pc' = "inrange" /\ outcome' = outcome
               ELSE pc' = "finish" /\ outcome' = "none"
            /\ UNCHANGED <<width, height, shrinkVars, result_len, returnedBy>>
    /\ UNCHANGED <<trackerVars, requestVars, current_size, growVars, new_size>>

\* if min_size_bytes <= current_size <= max_size_bytes: the opened image is
\* saved at quality 95 and the bytes are returned as they are
ReencodeInRange ==
    /\ pc = "inrange"
    /\ \E len \in SizeSet(min_size_bytes, max_size_bytes) : Return(len, "inrange")
    /\ UNCHANGED <<engineFrame, growVars, shrinkVars, new_size>>

\* -------------------------------------------------------- the event loop

Next ==
    \/ \E u \in Users, f \in Files : HandlePhoto(u, f)
    \/ \E u \in Users : SendWelcome(u)
    \/ \E u \in Users : HandleInvalid(u)
    \/ \E u \in Users, m \in Messages : ConversionBegin(u, m)
    \/ Fetch
    \/ Process
    \/ AddMetadata
    \/ IncreaseByScaling
    \/ IncreaseByPadding
    \/ IncreaseByQuality
    \/ IncreaseByDuplicate
    \/ VerifySize
    \/ AfterGrowth
    \/ StartShrink
    \/ ShrinkForBoth
    \/ Enlarge
    \/ ShrinkImageResize
    \/ ReencodeInRange
    \/ Finish

Spec == Init /\ [][Next]_vars

\* the statements of process_image: a call that has started goes on to its next
\* statement, no step of it waits for an event
EngineStep ==
    \/ Process
    \/ AddMetadata
    \/ IncreaseByScaling
    \/ IncreaseByPadding
    \/ IncreaseByQuality
    \/ IncreaseByDuplicate
    \/ VerifySize
    \/ AfterGrowth
    \/ StartShrink
    \/ ShrinkForBoth
    \/ Enlarge
    \/ ShrinkImageResize
    \/ ReencodeInRange

\* the event loop with a running call of process_image making progress
FairSpec == Spec /\ WF_vars(EngineStep)

\* --------------------------------------------------- overlapping handlers

\* handle_photo run by another worker of the bot while a follow-up is being
\* processed: it shares nothing with the running handler but user_states
PhotoDuringConversion(u, f) ==
    /\ pc # "idle"
    /\ user_states' = Record(user_states, u, f)
    /\ UNCHANGED <<engine, pc, requestVars, imageVars, growVars, shrinkVars,
                   new_size, resultVars>>

\* TeleBot hands the updates to its worker threads: a photo may be handled
\* while a follow-up is still running
NextOverlap ==
    \/ Next
    \/ \E u \in Users, f \in Files : PhotoDuringConversion(u, f)

SpecOverlap == Init /\ [][NextOverlap]_vars


\* ---------------------------------------------------------------- claims

\* the follow-up handler has run to its end
ConversionDone == handler = "handle_conversion_request" /\ pc = "idle"

\* C1: whatever the target and the image, the bytes process_image returns, in
\* either engine, have a length within [min_size_bytes, max_size_bytes]; it
\* otherwise returns None or raises.
C1_ReturnedBytesInRange ==
    outcome = "returned" => InRange(result_len, min_size_bytes, max_size_bytes)

\* C2: when handle_conversion_request has finished for a user, by whatever
\* path, the user has no entry in user_states and is not awaiting a spec.
C2_TrackerCleared ==
    ConversionDone =>
        /\ user_id \notin DOMAIN user_states
        /\ ~IsAwaitingSpec(user_states, user_id)

\* a follow-up that ended in a delivered file, the entry gone
C2_Witness ==
    /\ ConversionDone
    /\ sent = <<MsgStatus, MsgSuccess>>
    /\ user_id \notin DOMAIN user_states


GrowthPcs == {"metadata", "scaling", "padding", "quality", "duplicate", "verify",
              "grown", "enlarge"}
ShrinkPcs == {"start_shrink", "shrink"}

\* the length growth measured last lies in the target interval
GrowthInRange ==
    new_size # 0 /\ InRange(new_size, min_size_bytes, max_size_bytes)

\* C3: in process_image growth comes before shrinking: once the shrink branch
\* is entered no growth step follows; with an original below min the shrink
\* branch is entered only from the growth phase, and only when the length
\* growth measured is not within [min,max]; bytes returned by growth are
\* returned with no round of the shrink loop run; and the shrink loop runs
\* only for an original above max or below min.
C3_GrowthBeforeShrink ==
    /\ [](shrinkAttempts > 0 =>
            /\ returnedBy # "growth"
            /\ (current_size > max_size_bytes \/ current_size < min_size_bytes))
    /\ [][ /\ (pc \in ShrinkPcs => pc' \notin GrowthPcs)
           /\ (pc' \in ShrinkPcs /\ pc \notin ShrinkPcs =>
                 \/ pc = "process" /\ current_size > max_size_bytes
                 \/ /\ pc \in GrowthPcs
                    /\ current_size < min_size_bytes
                    /\ ~GrowthInRange')
           /\ (shrinkAttempts' > shrinkAttempts => pc = "shrink")
           /\ (returnedBy' = "growth" => shrinkAttempts' = 0) ]_vars

\* an original below min, grown into the interval and returned, the shrink
\* loop never entered
C3_Witness ==
    /\ outcome = "returned" /\ returnedBy = "growth"
    /\ current_size < min_size_bytes
    /\ InRange(result_len, min_size_bytes, max_size_bytes)
    /\ shrinkAttempts = 0

\* C4: an original whose size already lies in [min,max] is re-encoded once
\* and the bytes are returned; process_image does not end in a failure (None)
\* for it.
C4_InRangeOriginalReturned ==
    (outcome \in {"none", "returned"}
        /\ InRange(current_size, min_size_bytes, max_size_bytes))
    => (outcome = "returned" /\ returnedBy = "inrange")


\* what the user asked for, read off the command as it was built
AskedBytes(n, unit) == n * (IF unit = MB_ THEN 1024 * 1024 ELSE 1024)

\* C5: KB and MB are case-insensitive in the follow-up: a range typed with
\* lower-case or mixed-case units is converted to the byte bounds of its
\* upper-case form and is answered by no error other than min >= max.
C5_UnitsCaseInsensitive ==
    (/\ handler = "handle_conversion_request"
     /\ message.structured /\ message.junk = <<>>
     /\ Upper(message.fmt) \in SUPPORTED_FORMATS)
    => /\ min_size_bytes = AskedBytes(message.n1, message.u1)
       /\ max_size_bytes = AskedBytes(message.n2, message.u2)
       /\ sent[1] \in {MsgStatus, MsgMinMax}

\* the whole token is <number><unit>-<number><unit>
WholeToken(t) ==
    LET m == SizePatternMatch(t)
    IN  m # <<>> /\ Len(m[1]) + 1 + Len(m[2]) = Len(t)

\* C6: the size-range pattern accepts a token exactly when the whole token has
\* the form <number><KB|MB>-<number><KB|MB>; any other token (a missing unit,
\* extra characters) gets the malformed-range reply.
C6_PatternMatchesWholeToken ==
    LET parts == Split(message.text)
    IN  (/\ handler = "handle_conversion_request"
         /\ Len(parts) = 2
         /\ Upper(parts[2]) \in SUPPORTED_FORMATS)
        => (sent[1] = MsgBadRange <=> ~WholeToken(parts[1]))

\* C7: malformed range, min >= max, unsupported format and search exhaustion
\* are each answered by a reply of their own, the four replies differ from one
\* another, and process_image is called at most once per follow-up (not at
\* all for the three validation failures).
C7_DistinctFailureReplies ==
    /\ engineCalls <= 1
    /\ Cardinality({MsgBadRange, MsgMinMax, MsgBadFormat, MsgNoFit}) = 4
    /\ ConversionDone =>
        LET parts  == Split(message.text)
            two    == Len(parts) = 2
            fmtOk  == Upper(parts[2]) \in SUPPORTED_FORMATS
            m      == SizePatternMatch(parts[1])
            parsed == m # <<>> /\ ~ConvertRaises(m[1]) /\ ~ConvertRaises(m[2])
            badFormat == two /\ ~fmtOk
            malformed == two /\ fmtOk /\ m = <<>>
            minGeMax  == two /\ fmtOk /\ parsed
                         /\ convert_to_bytes(m[1]) >= convert_to_bytes(m[2])
            last   == sent[Len(sent)]
        IN  /\ badFormat <=> sent = <<MsgBadFormat>>
            /\ malformed <=> sent = <<MsgBadRange>>
            /\ minGeMax  <=> sent = <<MsgMinMax>>
            /\ outcome = "none" <=> sent = <<MsgStatus, MsgNoFit>>
            /\ last \in {MsgBadFormat, MsgBadRange, MsgMinMax} => engineCalls = 0
            /\ last = MsgNoFit => engineCalls = 1

\* the search exhausted: one call of process_image, its own reply
C7_Witness ==
    /\ ConversionDone
    /\ outcome = "none" /\ shrinkAttempts > 0
    /\ sent = <<MsgStatus, MsgNoFit>>
    /\ engineCalls = 1

\* wrong token count, unsupported format, malformed range or min >= max
InvalidInput(text) ==
    LET parts == Split(text)
    IN  \/ Len(parts) # 2
        \/ Upper(parts[2]) \notin SUPPORTED_FORMATS
        \/ SizePatternMatch(parts[1]) = <<>>
        \/ LET m == SizePatternMatch(parts[1])
           IN  /\ ~ConvertRaises(m[1]) /\ ~ConvertRaises(m[2])
               /\ convert_to_bytes(m[1]) >= convert_to_bytes(m[2])

\* C8: an input-validation failure is answered at once by its one error reply:
\* no status message, no download, no call of process_image, and the user's
\* tracker entry is removed.
C8_ValidationFailureDiscarded ==
    (handler = "handle_conversion_request" /\ InvalidInput(message.text))
    => /\ pc = "idle"
       /\ Len(sent) = 1
       /\ sent[1] \in {MsgBadParts, MsgBadFormat, MsgBadRange, MsgMinMax}
       /\ downloads = 0 /\ engineCalls = 0 /\ outcome = "pending"
       /\ user_id \notin DOMAIN user_states

\* "3MB-2MB WEBP": rejected by the min < max check, nothing fetched
C8_Witness ==
    /\ ConversionDone
    /\ message = Command(3, MB_, 2, MB_, "upper", <<>>, WEBP)
    /\ sent = <<MsgMinMax>>
    /\ downloads = 0 /\ engineCalls = 0
    /\ user_id \notin DOMAIN user_states

\* C9: convert_to_bytes is 1024-based: N MB is N*1024*1024 bytes and N KB is
\* N*1024 bytes, and the min < max check compares these byte values, across
\* units too.
C9_BytesAre1024Based ==
    (/\ handler = "handle_conversion_request"
     /\ message.structured /\ message.style = "upper"
     /\ Upper(message.fmt) \in SUPPORTED_FORMATS)
    => LET lo == message.n1 * (IF message.u1 = MB_ THEN 1024 * 1024 ELSE 1024)
           hi == message.n2 * (IF message.u2 = MB_ THEN 1024 * 1024 ELSE 1024)
       IN  /\ min_size_bytes = lo
           /\ max_size_bytes = hi
           /\ sent[1] = MsgMinMax <=> lo >= hi
           /\ sent[1] = MsgStatus <=> lo < hi

\* "1024KB-1MB JPEG": both ends are 1048576 bytes, rejected as min >= max
C9_Witness ==
    /\ ConversionDone
    /\ message = Command(1024, KB_, 1, MB_, "upper", <<>>, JPEG)
    /\ min_size_bytes = 1048576 /\ max_size_bytes = 1048576
    /\ sent = <<MsgMinMax>>

IsPrefix(a, b) == Len(a) <= Len(b) /\ a = SubSeq(b, 1, Len(a))

\* the length _verify_size measured for the image increase_image_size returned
VerifiedLength == IF enlarged = "img" THEN img100 ELSE cand100

\* C10 as stated: a technique whose result reaches min but falls outside
\* [min,max] does not stop the later techniques, so for_both.py gives growth
\* up for the shrink loop only when all five techniques have been tried.
C10_LaterTechniquesStillTried ==
    (engine = "for_both" /\ pc = "start_shrink" /\ current_size < min_size_bytes)
    => tried = <<"metadata", "scaling", "padding", "quality", "duplicate">>

\* C10 amended: the techniques are tried in the order metadata, scaling,
\* padding, quality, duplicate; increase_image_size returns the image of the
\* first technique whose result reaches min at quality 100 and tries no
\* technique after it; process_image returns that image's quality-95 encoding
\* if it lies in [min,max] and goes on to the shrink branch if it does not.
C10_FirstVerifiedTechniqueDecides ==
    /\ [](engine = "for_both" =>
            /\ IsPrefix(tried, <<"metadata", "scaling", "padding", "quality",
                                 "duplicate">>)
            /\ (pc = "grown" /\ enlarged # "none" =>
                  /\ tried # <<>> /\ technique = tried[Len(tried)]
                  /\ VerifiedLength >= min_size_bytes)
            /\ (pc = "grown" /\ enlarged = "none" => Len(tried) = 5)
            /\ (returnedBy = "growth" =>
                  /\ result_len = new_size
                  /\ InRange(result_len, min_size_bytes, max_size_bytes)))
    /\ [][ engine = "for_both" =>
            /\ (enlarged # "none" /\ pc # "idle" => tried' = tried)
            /\ (enlarged = "none" /\ enlarged' # "none" => pc = "verify")
            /\ (pc = "grown" /\ enlarged # "none" =>
                  \/ pc' = "finish" /\ returnedBy' = "growth" /\ GrowthInRange'
                  \/ pc' = "start_shrink" /\ ~GrowthInRange') ]_vars

\* a technique before the last was accepted by _verify_size, its quality-95
\* encoding is outside [min,max], and the shrink branch is next
C10_Witness ==
    /\ engine = "for_both" /\ pc = "start_shrink"
    /\ enlarged # "none" /\ Len(tried) < 5
    /\ ~GrowthInRange


\* C11: the shrink phase keeps both dimensions above 100px: every image it
\* encodes, and so every result it returns, is wider and higher than 100.
C11_ShrinkCandidatesAboveFloor ==
    shrinkAttempts > 0 => (cand_w > 100 /\ cand_h > 100)

\* the counter of each bounded loop stays within the loop's bound
LoopCountersBounded ==
    /\ pc = "metadata"  => step \in 0..(max_iterations - 1)
    /\ pc = "scaling"   => step >= 1 /\ ScalingContinues(step)
    /\ pc = "padding"   => step \in 100..max_padding
    /\ pc = "duplicate" => step \in 2..max_multiplier
    /\ pc = "enlarge"   => step >= 1 /\ EnlargeContinues(step)

\* a round of the shrink loop that is followed by another one
ShrinkRoundRepeats ==
    pc = "shrink" /\ pc' = "shrink" /\ shrinkAttempts' # shrinkAttempts

\* C12: process_image terminates for every image and target: the counters of
\* the growth loops stay within their bounds (metadata 10 rounds, scaling
\* factor <= 4, padding <= 1000, tiling 2..4 copies), every round of the shrink
\* loop strictly decreases width and height and runs only above the floor, and
\* a call that has started reaches its end, with a result or without.
C12_ProcessImageTerminates ==
    /\ []LoopCountersBounded
    /\ [][ShrinkRoundRepeats =>
             /\ AboveFloor(width, height)
             /\ width' < width /\ height' < height]_vars
    /\ (pc = "process") ~> (pc = "finish")

\* a call that went through all the growth loops and the shrink loop, down to
\* the floor, and ended without a result
C12_Witness ==
    /\ pc = "finish" /\ outcome = "none"
    /\ engine = "for_both"
    /\ tried = Techniques
    /\ shrinkAttempts > 1
    /\ ~AboveFloor(width, height)

\* the end of a follow-up whose user has, by now, an entry for another photo
\* than the one the follow-up fetched
NewerPhotoAtCleanup ==
    /\ pc = "finish" /\ pc' = "idle"
    /\ user_id \in DOMAIN user_states
    /\ user_states[user_id].file_id # file_id

\* C13: with overlapping handlers, a photo recorded while an earlier follow-up
\* of the same user is being processed stays pending: the cleanup that ends
\* the follow-up removes only the entry the follow-up consumed.
C13_OverlappingPhotoStaysPending ==
    [][NewerPhotoAtCleanup =>
          /\ user_id \in DOMAIN user_states'
          /\ user_states'[user_id] = user_states[user_id]]_vars

\* handle_photo has just recorded a photo
PhotoRecorded ==
    pc = "idle" /\ handler' = "handle_photo" /\ sent' = <<MsgPhotoAsk>>

\* the step leaves the entry, or the absence of one, of every user but u alone
OtherEntriesUnchanged(u) ==
    \A v \in Users \ {u} :
        /\ v \in DOMAIN user_states' <=> v \in DOMAIN user_states
        /\ v \in DOMAIN user_states => user_states'[v] = user_states[v]

\* a follow-up that has fetched its file and has not ended yet
FollowUpProcessing ==
    handler = "handle_conversion_request" /\ pc \notin {"idle", "fetch"}

\* C14: with events handled one at a time the tracker holds one entry per user
\* at most, that of the user's most recently recorded photo: a recorded photo
\* becomes (or replaces) the user's entry, nothing but a recorded photo sets or
\* alters an entry, the follow-up fetches and processes the stored file, and a
\* step on behalf of user u leaves the entries of all other users as they were.
C14_TrackerHoldsLatestPhoto ==
    /\ [](/\ DOMAIN user_states \subseteq Users
          /\ \A u \in DOMAIN user_states :
                user_states[u].waiting_for = "size_format"
                /\ user_states[u].file_id \in Files
          /\ FollowUpProcessing =>
                /\ user_id \in DOMAIN user_states
                /\ file_id = user_states[user_id].file_id)
    /\ [][/\ OtherEntriesUnchanged(user_id')
          /\ PhotoRecorded =>
                /\ IsAwaitingSpec(user_states', user_id')
                /\ user_states'[user_id'].file_id = file_id'
          /\ pc = "fetch" => file_id' = user_states[user_id].file_id
          /\ (~PhotoRecorded /\ user_id' \in DOMAIN user_states') =>
                /\ user_id' \in DOMAIN user_states
                /\ user_states'[user_id'] = user_states[user_id']]_vars

\* a follow-up delivering the file of its user while another user, with
\* another photo, is still awaiting
C14_Witness ==
    /\ FollowUpProcessing /\ pc = "finish" /\ outcome = "returned"
    /\ file_id = "fileB"
    /\ \E v \in DOMAIN user_states :
          v # user_id /\ user_states[v].file_id = "fileA"

====
